---- MODULE Spec2Model ----
(***************************************************************************)
(* The agent runtime of agent-desktop (src-tauri/src): the shared AppState *)
(* (state.rs), the connection supervisor start_connection, the read loop   *)
(* of handle_connection with handle_message, and the task path             *)
(* execute_task / process_queue (websocket.rs), driven by the UI commands  *)
(* of main.rs and by a server that opens and closes transports and sends   *)
(* tool requests.                                                          *)
(*                                                                         *)
(* Specifications.  Spec follows one supervisor loop at a time through the *)
(* server's requests.  SpecUI adds the UI's commands connect (with a loop  *)
(* already alive) and disconnect, SpecRetry the command update_settings    *)
(* to one loop at a time, both under a smaller budget of requests.         *)
(* SpecSettings follows one connection that stays open while the settings  *)
(* are updated, with one request more.  SpecLog is the log ring of         *)
(* AppState under add_log.  SpecWire is the outbound path of one           *)
(* connection at a time: the channel of handle_connection, its tickers,    *)
(* its write task and its cleanup.  SpecTools is execute_tool (tools.rs)   *)
(* on a small file system, with the operating system's outcomes of a       *)
(* spawned command.  SpecRetry also has the server send frames that do not *)
(* parse.                                                                  *)
(* SpecTray adds the tray's connect to SpecUI.                              *)
(* SpecDrain is one open connection under settings that stay as they are,  *)
(* with as many requests as SpecSettings.                                  *)
(*                                                                         *)
(* Granularity.  The runtime is multi-threaded, so the tasks interleave at *)
(* every access to a lock of AppState.  One action is one stretch of code  *)
(* of one task; the stretches are cut where another task's step in between *)
(* changes what the code goes on to do: after the admission decision, after *)
(* the enqueue, around the tool's execution, between the status check and  *)
(* the status write at completion, and before the drain step.              *)
(***************************************************************************)
EXTENDS Integers, Sequences, FiniteSets, Bags, TLC

\* ------------------------------------------------------------------ bounds
\* Requests the server sends over a whole run.
MaxRequests == 3

\* Requests the server sends over a run of SpecUI or SpecRetry.
MaxUIRequests == 1
\* Requests the server sends over a run of SpecSettings.
MaxDrainRequests == 4
\* Calls of add_log over a run of SpecLog, beyond the capacity of the ring.
MaxLogOverflow == 3
\* Frames that do not parse, sent by the server over one connection of SpecRetry.
MaxMalformed == 2
\* Commands put into outbound channels over a run of SpecWire.
MaxFrames == 4
\* Calls of execute_tool over a run of SpecTools.
MaxToolCalls == 2

Largest(S) == CHOOSE n \in S : \A m \in S : m <= n
Requests == 1..Largest({MaxRequests, MaxUIRequests, MaxDrainRequests})
\* The supervisor loops (start_connection) that can be alive together.  Spec
\* and SpecSettings follow one loop at a time: a new one is spawned only when
\* the last one has left its loop.
Sups == {1, 2}

\* ------------------------------------------------------- program constants
MAX_CPU_PERCENT == 80
MAX_MEMORY_PERCENT == 85
\* state.rs add_log: the capacity of the log ring
MAX_LOG_ENTRIES == 500
COMMAND_TIMEOUT_SECS == 120

\* The tool kinds that matter to admission: the shell command and one of the
\* tools that bypass the queue.
ToolNames == {"run_command", "read_file"}
\* Values of settings.max_concurrent_commands (a positive integer).
MaxConcurrentValues == {1, 2}
\* Rounded percentages a metrics sample may hold, around both thresholds.
CpuSamples == {MAX_CPU_PERCENT, MAX_CPU_PERCENT + 1}
MemSamples == {MAX_MEMORY_PERCENT, MAX_MEMORY_PERCENT + 1}

VARIABLES
    status,           \* AppState.status
    settings,         \* AppState.settings (the fields the runtime reads)
    active_commands,  \* AppState.active_commands
    task_queue,       \* AppState.task_queue, a sequence of QueuedTask
    agent_id,         \* AppState.agent_id, <<>> for None and <<id>> for Some(id)
    is_connected,     \* AppState.is_connected
    sup,              \* per supervisor loop: its position and settings snapshot
    eng,              \* per connection: the read loop's position and locals
    task,             \* per request: where it is on its way through the agent
    nreq,             \* requests sent by the server so far
    tool_responses,   \* bag of tool_response frames handed to an open channel
    tool_queued,      \* bag of tool_queued frames handed to an open channel
    enqOrder,         \* request ids in the order enqueue_task took them
    deqOrder,         \* request ids in the order dequeue_task returned them
    first_frame,      \* per connection: the first frame written to its transport
    logs,             \* AppState.logs, a sequence of entries (their serial numbers)
    nlogs,            \* calls of add_log so far
    disconnect_requested, \* disconnect() was called and no connect request since
    malformed,        \* per connection: frames that do not parse, in flight and read
    conn_tasks,       \* SpecWire: which tasks of the connection are alive
    chan,             \* SpecWire: the outbound channel, frames not yet received
    written,          \* SpecWire: the frames written to the transport, in order
    sent,             \* SpecWire: the frames the channel accepted, in order
    nframes,          \* SpecWire: frames handed to tx.send so far
    fs,               \* SpecTools: the file system, location |-> node
    children,         \* SpecTools: child processes of the agent still running
    last,             \* SpecTools: the last call of execute_tool and what it returned
    ncalls            \* SpecTools: calls of execute_tool so far

vars == <<status, settings, active_commands, task_queue, agent_id, is_connected,
          sup, eng, task, nreq, tool_responses, tool_queued, enqOrder, deqOrder,
          first_frame, logs, nlogs, disconnect_requested, malformed,
          conn_tasks, chan, written, sent, nframes, fs, children, last, ncalls>>

wireVars == <<conn_tasks, chan, written, sent, nframes>>
toolVars == <<fs, children, last, ncalls>>

\* ------------------------------------------------------------ pure helpers

\* Option<T>: None is <<>>, Some(v) is <<v>>.
None == <<>>
Some(v) == <<v>>

\* The session a request belongs to: sessions span several requests.
SessionOf(r) == IF r % 2 = 1 THEN "session-a" ELSE "session-b"

\* metrics.rs is_system_overloaded
is_system_overloaded(metrics) ==
    metrics.cpu_percent > MAX_CPU_PERCENT \/ metrics.memory_percent > MAX_MEMORY_PERCENT

\* A metrics sample (collect_system_metrics): what the host reports is the
\* environment's choice.
MetricSamples == [cpu_percent : CpuSamples, memory_percent : MemSamples]

\* should_queue with > for >=: one command more than the limit is let through
should_queue_off_by_one(active, max_concurrent, tool, metrics) ==
    active > max_concurrent \/ (tool = "run_command" /\ is_system_overloaded(metrics))

\* websocket.rs handle_message: should_queue
should_queue(active, max_concurrent, tool, metrics) ==
    active >= max_concurrent \/ (tool = "run_command" /\ is_system_overloaded(metrics))

\* The queue branch without its test of the tool: every tool is queued
takes_queue_branch_any_tool(active, max_concurrent, tool, metrics) ==
    should_queue(active, max_concurrent, tool, metrics)

\* websocket.rs handle_message: the branch that enqueues
takes_queue_branch(active, max_concurrent, tool, metrics) ==
    should_queue(active, max_concurrent, tool, metrics) /\ tool = "run_command"

\* The reason chosen with > for >=: at the maximum itself it blames the load
queue_reason_above_max(active, max_concurrent) ==
    IF active > max_concurrent THEN "Max concurrent commands reached"
    ELSE "System load high"

\* websocket.rs handle_message: the reason of the tool_queued notice (its kind:
\* the numbers formatted into the text are left out)
queue_reason(active, max_concurrent) ==
    IF active >= max_concurrent THEN "Max concurrent commands reached"
    ELSE "System load high"

\* process_queue without its early return
drain_never_blocked(active, max_concurrent, metrics) == FALSE

\* websocket.rs process_queue: the early return
drain_blocked(active, max_concurrent, metrics) ==
    active >= max_concurrent \/ is_system_overloaded(metrics)

\* An increment that leaves the count as it is
increment_active_commands_skipped(count) == count

\* state.rs increment_active_commands / decrement_active_commands
increment_active_commands(count) == count + 1
decrement_active_commands(count) == IF count > 0 THEN count - 1 ELSE count

\* enqueue_task with push_front for push_back
enqueue_task_front(queue, t) == <<t>> \o queue

\* state.rs enqueue_task: the queue after push_back (its length is returned)
enqueue_task(queue, t) == Append(queue, t)

\* state.rs dequeue_task: pop_front, the task returned and the queue left
dequeue_front(queue) == Head(queue)
\* dequeue_task with front() for pop_front(): the head stays in the queue
dequeue_rest_keeps_head(queue) == queue
dequeue_rest(queue) == Tail(queue)

\* QueuedTask, as far as the runtime looks at it
QueuedTask(r, tool) == [request_id |-> r, session_id |-> SessionOf(r), tool |-> tool]

\* A ToolResponse that never carries the queue fields
ToolResponse_without_queue_fields(request_id, session_id, was_queued) ==
    [requestId |-> request_id, sessionId |-> session_id,
     queued |-> None, queuePosition |-> None]

\* OutgoingMessage::ToolResponse as execute_task builds it
ToolResponse(request_id, session_id, was_queued) ==
    [requestId |-> request_id, sessionId |-> session_id,
     queued |-> IF was_queued THEN Some(TRUE) ELSE None,
     queuePosition |-> IF was_queued THEN Some(0) ELSE None]

\* OutgoingMessage::ToolQueued as handle_message builds it
ToolQueued(request_id, session_id, position, reason) ==
    [requestId |-> request_id, sessionId |-> session_id,
     queuePosition |-> position, reason |-> reason]

BagAdd(b, e) == b (+) SetToBag({e})

\* A transport carries its frames in the order they are written; of that order
\* the first frame is kept: a frame written to a transport that has carried
\* none yet is its first frame.
write_frame(first, kind) == IF first = "none" THEN kind ELSE first

\* handle_connection without its registration message
register_skipped(first) == first

\* websocket.rs handle_connection: the registration message, written to the
\* transport before the tickers and the write task are spawned
register(first) == write_frame(first, "agent_register")

\* add_log with pop_back for pop_front: on overflow the newest entry goes
add_log_drops_newest(ring, entry) ==
    IF Len(ring) + 1 > MAX_LOG_ENTRIES THEN ring ELSE Append(ring, entry)

\* state.rs add_log: push_back, then pop_front while the ring holds more than
\* its capacity (one pop: the ring held at most its capacity before)
add_log(ring, entry) ==
    LET pushed == Append(ring, entry)
    IN  IF Len(pushed) > MAX_LOG_ENTRIES THEN Tail(pushed) ELSE pushed

\* connect without its test of is_connected
connect_never_returns_early(connected) == FALSE

\* main.rs connect: the early return
connect_returns_early(connected) == connected

\* ----------------------------------------------------------------- records

NoTask == [pc |-> "none", tool |-> "run_command", conn |-> 0, tx |-> 0,
           was_queued |-> FALSE, during |-> 0]
EngOff == [pc |-> "off", req |-> 0, active |-> 0, overloaded |-> FALSE,
           position |-> 0, registered |-> FALSE]
EngRead(registered) == [pc |-> "read", req |-> 0, active |-> 0, overloaded |-> FALSE,
                        position |-> 0, registered |-> registered]
SupNone == [pc |-> "none", max_concurrent |-> 0]

\* No frame that does not parse was sent on the connection
NoMalformed == [inflight |-> 0, ignored |-> 0]

\* No connection: none of handle_connection's tasks is alive
NoConnTasks == [engine |-> "none", status_task |-> FALSE, ping_task |-> FALSE,
                write_task |-> FALSE]

\* The file system before any call: the root and the working directory "w"
Dir == [kind |-> "dir", content |-> <<>>]
\* The directory the agent process runs in: relative paths start here
ProcessDir == <<"p">>
\* The file system at launch, by location (the names from the root down): the
\* directory w exists both under the root and under the process directory
InitialFs == (<<>> :> Dir) @@ (<<"w">> :> Dir) @@ (ProcessDir :> Dir) @@
             (ProcessDir \o <<"w">> :> Dir)

\* A path: absolute or relative, and its normal components
Path(abs, comps) == [abs |-> abs, comps |-> comps]
\* The `input` object of a tool_request, absent parameters as None
Input(path, content, command, pattern) ==
    [path |-> path, content |-> content, command |-> command, pattern |-> pattern]
\* What the operating system does with a spawned command
NoOutcome == [kind |-> "none", stdout |-> <<>>, stderr |-> <<>>, code |-> None,
              duration_ms |-> 0]
\* A text built by format!: the literal with its placeholder, and the
\* characters (code points) put in place of {}
Text(fmt, text) == [fmt |-> fmt, text |-> text]

\* No call of execute_tool yet
NoCall == [name |-> "none", cwd |-> Path(TRUE, <<>>),
           input |-> Input(None, None, None, None), os |-> NoOutcome,
           full_path |-> None, result |-> Text("", <<>>), error |-> None,
           metrics |-> None, child |-> "none"]

\* ------------------------------------------------------------------- Init
\* AppState::default, then setup() of main.rs: the stored settings are loaded
\* and, with auto_connect_on_launch, one supervisor loop is spawned.
Init ==
    /\ status = "Disconnected"
    /\ settings \in [max_concurrent_commands : MaxConcurrentValues,
                     auto_connect_on_launch : BOOLEAN]
    /\ active_commands = 0
    /\ task_queue = <<>>
    /\ agent_id = None
    /\ is_connected = FALSE
    /\ sup = [s \in Sups |->
                IF s = 1 /\ settings.auto_connect_on_launch
                THEN [pc |-> "start", max_concurrent |-> 0]
                ELSE SupNone]
    /\ eng = [s \in Sups |-> EngOff]
    /\ task = [r \in Requests |-> NoTask]
    /\ nreq = 0
    /\ tool_responses = EmptyBag
    /\ tool_queued = EmptyBag
    /\ enqOrder = <<>>
    /\ deqOrder = <<>>
    /\ first_frame = [s \in Sups |-> "none"]
    /\ logs = <<>>
    /\ nlogs = 0
    /\ disconnect_requested = FALSE
    /\ malformed = [s \in Sups |-> NoMalformed]
    /\ conn_tasks = NoConnTasks
    /\ chan = <<>>
    /\ written = <<>>
    /\ sent = <<>>
    /\ nframes = 0
    /\ fs = InitialFs
    /\ children = {}
    /\ last = NoCall
    /\ ncalls = 0

\* ------------------------------------------------------------- UI commands

FreeSlots == {s \in Sups : sup[s].pc = "none"}
LowestFree == CHOOSE s \in FreeSlots : \A t \in FreeSlots : s <= t

\* tokio::spawn(start_connection): a new supervisor loop, at its top
SpawnSupervisor == sup' = [sup EXCEPT ![LowestFree] = [pc |-> "start", max_concurrent |-> 0]]

\* main.rs connect: returns at once when is_connected, else spawns a loop
Connect ==
    /\ ~connect_returns_early(is_connected)
    /\ FreeSlots # {}
    /\ SpawnSupervisor
    /\ disconnect_requested' = FALSE
    /\ UNCHANGED <<status, settings, active_commands, task_queue, agent_id, is_connected,
                   eng, task, nreq, tool_responses, tool_queued, enqOrder, deqOrder,
                   first_frame, logs, nlogs,
                   malformed, wireVars, toolVars>>

\* main.rs setup: the "tray-connect" listener spawns a loop, whatever is_connected
TrayConnect ==
    /\ FreeSlots # {}
    /\ SpawnSupervisor
    /\ disconnect_requested' = FALSE
    /\ UNCHANGED <<status, settings, active_commands, task_queue, agent_id, is_connected,
                   eng, task, nreq, tool_responses, tool_queued, enqOrder, deqOrder,
                   first_frame, logs, nlogs,
                   malformed, wireVars, toolVars>>

\* websocket.rs disconnect (main.rs disconnect, "tray-disconnect")
Disconnect ==
    /\ is_connected' = FALSE
    /\ status' = "Disconnected"
    /\ disconnect_requested' = TRUE
    /\ UNCHANGED <<settings, active_commands, task_queue, agent_id, sup, eng, task, nreq,
                   tool_responses, tool_queued, enqOrder, deqOrder,
                   first_frame, logs, nlogs,
                   malformed, wireVars, toolVars>>

\* main.rs update_settings
UpdateSettings ==
    /\ \E new \in [max_concurrent_commands : MaxConcurrentValues,
                   auto_connect_on_launch : BOOLEAN] :
          /\ new # settings
          /\ settings' = new
    /\ UNCHANGED <<status, active_commands, task_queue, agent_id, is_connected, sup, eng,
                   task, nreq, tool_responses, tool_queued, enqOrder, deqOrder,
                   first_frame, logs, nlogs, disconnect_requested,
                   malformed, wireVars, toolVars>>

\* -------------------------------------------- supervisor: start_connection

\* The top of the loop, reached when the loop is spawned or its reconnect
\* delay is over: the settings snapshot, then status Connecting
SupStart(s) ==
    /\ sup[s].pc \in {"start", "sleep"}
    /\ sup' = [sup EXCEPT ![s] = [pc |-> "connect",
                                  max_concurrent |-> settings.max_concurrent_commands]]
    /\ status' = "Connecting"
    /\ UNCHANGED <<settings, active_commands, task_queue, agent_id, is_connected, eng,
                   task, nreq, tool_responses, tool_queued, enqOrder, deqOrder,
                   first_frame, logs, nlogs, disconnect_requested,
                   malformed, wireVars, toolVars>>

\* connect_async returns Ok: status Connected, is_connected, and handle_connection
\* starts (it registers and enters its read loop)
ConnectOk(s) ==
    /\ sup[s].pc = "connect"
    /\ sup' = [sup EXCEPT ![s].pc = "engine"]
    /\ status' = "Connected"
    /\ is_connected' = TRUE
    /\ eng' = [eng EXCEPT ![s] = EngRead(FALSE)]
    /\ first_frame' = [first_frame EXCEPT ![s] = register(@)]
    /\ UNCHANGED <<settings, active_commands, task_queue, agent_id, task, nreq,
                   tool_responses, tool_queued, enqOrder, deqOrder,
                   logs, nlogs, disconnect_requested,
                   malformed, wireVars, toolVars>>

\* The reconnect check without its test: the loop always goes on
reconnect_check_always(loop) == [loop EXCEPT !.pc = "sleep"]

\* The reconnect check that ends an iteration: leave the loop unless
\* auto_connect_on_launch, else sleep for the reconnect delay
reconnect_check(loop) ==
    IF settings.auto_connect_on_launch THEN [loop EXCEPT !.pc = "sleep"] ELSE SupNone

\* connect_async returns Err: status Disconnected, then the reconnect check
ConnectFail(s) ==
    /\ sup[s].pc = "connect"
    /\ sup' = [sup EXCEPT ![s] = reconnect_check(@)]
    /\ status' = "Disconnected"
    /\ UNCHANGED <<settings, active_commands, task_queue, agent_id, is_connected, eng,
                   task, nreq, tool_responses, tool_queued, enqOrder, deqOrder,
                   first_frame, logs, nlogs, disconnect_requested,
                   malformed, wireVars, toolVars>>

\* The read loop ends (Close frame, read error, end of stream): the cleanup of
\* handle_connection drops the channel's receiver, so every sender still holding
\* it finds it closed; requests not yet read are lost with the transport.  Back
\* in start_connection: is_connected false, status Disconnected, then the
\* reconnect check.
EngineClose(s) ==
    /\ sup[s].pc = "engine"
    /\ eng[s].pc = "read"
    /\ eng' = [eng EXCEPT ![s] = EngOff]
    /\ task' = [r \in Requests |->
                 IF task[r].pc = "sent" /\ task[r].conn = s
                 THEN [task[r] EXCEPT !.pc = "lost"]
                 ELSE IF task[r].tx = s THEN [task[r] EXCEPT !.tx = 0]
                 ELSE task[r]]
    /\ sup' = [sup EXCEPT ![s] = reconnect_check(@)]
    /\ is_connected' = FALSE
    /\ status' = "Disconnected"
    /\ first_frame' = [first_frame EXCEPT ![s] = "none"]
    /\ malformed' = [malformed EXCEPT ![s] = NoMalformed]
    /\ UNCHANGED <<settings, active_commands, task_queue, agent_id, nreq,
                   tool_responses, tool_queued, enqOrder, deqOrder,
                   logs, nlogs, disconnect_requested,
                   wireVars, toolVars>>

\* ------------------------------------------------------------- the server

\* The server sends the next tool_request on an open transport; it is in flight
\* until the read loop takes it.  `during` remembers the request that this
\* connection was executing inline when the new one was sent.
ServerSendWithin(s, budget) ==
    /\ nreq < budget
    /\ sup[s].pc = "engine"
    /\ \E tool \in ToolNames :
          task' = [task EXCEPT ![nreq + 1] =
                     [pc |-> "sent", tool |-> tool, conn |-> s, tx |-> 0,
                      was_queued |-> FALSE,
                      during |-> IF eng[s].pc = "inline" /\ task[eng[s].req].pc = "run"
                                 THEN eng[s].req ELSE 0]]
    /\ nreq' = nreq + 1
    /\ UNCHANGED <<status, settings, active_commands, task_queue, agent_id, is_connected,
                   sup, eng, tool_responses, tool_queued, enqOrder, deqOrder,
                   first_frame, logs, nlogs, disconnect_requested,
                   malformed, wireVars, toolVars>>

ServerSend(s) == ServerSendWithin(s, MaxRequests)

\* ---------------------------------------- read loop: handle_message

InFlight(s) == {r \in Requests : task[r].pc = "sent" /\ task[r].conn = s}
OldestInFlight(s) == CHOOSE r \in InFlight(s) : \A q \in InFlight(s) : r <= q

\* IncomingMessage::AgentRegistered
AgentRegistered(s) ==
    /\ sup[s].pc = "engine"
    /\ eng[s].pc = "read"
    /\ ~eng[s].registered
    /\ agent_id' = Some(s)
    /\ eng' = [eng EXCEPT ![s].registered = TRUE]
    /\ UNCHANGED <<status, settings, active_commands, task_queue, is_connected, sup, task,
                   nreq, tool_responses, tool_queued, enqOrder, deqOrder,
                   first_frame, logs, nlogs, disconnect_requested,
                   malformed, wireVars, toolVars>>

\* IncomingMessage::ToolRequest, up to the admission decision: the metrics are
\* sampled, the active count is read, and the request goes to the queue branch
\* or to execute_task, which the read loop awaits inline.
ToolRequest(s) ==
    /\ sup[s].pc = "engine"
    /\ eng[s].pc = "read"
    /\ InFlight(s) # {}
    /\ \E metrics \in MetricSamples :
        LET r == OldestInFlight(s)
            active == active_commands
            queue_it == takes_queue_branch(active, sup[s].max_concurrent,
                                           task[r].tool, metrics)
        IN  /\ eng' = [eng EXCEPT ![s] =
                         [@ EXCEPT !.pc = IF queue_it THEN "enqueue" ELSE "inline",
                                   !.req = r, !.active = active,
                                   !.overloaded = queue_it /\ is_system_overloaded(metrics)]]
            /\ task' = [task EXCEPT ![r] =
                         IF queue_it THEN [@ EXCEPT !.pc = "handling"]
                         ELSE [@ EXCEPT !.pc = "start", !.tx = s]]
    /\ UNCHANGED <<status, settings, active_commands, task_queue, agent_id, is_connected,
                   sup, nreq, tool_responses, tool_queued, enqOrder, deqOrder,
                   first_frame, logs, nlogs, disconnect_requested,
                   malformed, wireVars, toolVars>>

\* The queue branch: enqueue_task, which returns the new length
Enqueue(s) ==
    /\ eng[s].pc = "enqueue"
    /\ LET r == eng[s].req
           queue == enqueue_task(task_queue, QueuedTask(r, task[r].tool))
       IN  /\ task_queue' = queue
           /\ eng' = [eng EXCEPT ![s] = [@ EXCEPT !.pc = "notify", !.position = Len(queue)]]
           /\ task' = [task EXCEPT ![r].pc = "queued"]
           /\ enqOrder' = Append(enqOrder, r)
    /\ UNCHANGED <<status, settings, active_commands, agent_id, is_connected, sup, nreq,
                   tool_responses, tool_queued, deqOrder,
                   first_frame, logs, nlogs, disconnect_requested,
                   malformed, wireVars, toolVars>>

\* The queue branch: the tool_queued notice, then back to the read loop
NotifyQueued(s) ==
    /\ eng[s].pc = "notify"
    /\ LET r == eng[s].req
       IN  tool_queued' = BagAdd(tool_queued,
                ToolQueued(r, SessionOf(r), eng[s].position,
                           queue_reason(eng[s].active, sup[s].max_concurrent)))
    /\ eng' = [eng EXCEPT ![s] = EngRead(eng[s].registered)]
    /\ first_frame' = [first_frame EXCEPT ![s] = write_frame(@, "tool_queued")]
    /\ UNCHANGED <<status, settings, active_commands, task_queue, agent_id, is_connected,
                   sup, task, nreq, tool_responses, enqOrder, deqOrder,
                   logs, nlogs, disconnect_requested,
                   malformed, wireVars, toolVars>>

\* ------------------------------------------- read loop: frames that do not parse

\* The server sends a text frame that is none of agent_registered,
\* tool_request and get_status
ServerSendMalformed(s) ==
    /\ sup[s].pc = "engine"
    /\ malformed[s].inflight + malformed[s].ignored < MaxMalformed
    /\ malformed' = [malformed EXCEPT ![s].inflight = @ + 1]
    /\ UNCHANGED <<status, settings, active_commands, task_queue, agent_id, is_connected,
                   sup, eng, task, nreq, tool_responses, tool_queued, enqOrder, deqOrder,
                   first_frame, logs, nlogs, disconnect_requested, wireVars, toolVars>>

\* A read loop that ends at a frame that does not parse
on_parse_error_breaks(engine) == EngOff

\* websocket.rs handle_connection: `if let Ok(msg) = serde_json::from_str(..)`
\* has no else branch: the read loop goes on as it is
on_parse_error(engine) == engine

\* The read loop takes a frame that does not parse
IgnoreMalformed(s) ==
    /\ sup[s].pc = "engine"
    /\ eng[s].pc = "read"
    /\ malformed[s].inflight > 0
    /\ malformed' = [malformed EXCEPT ![s] = [inflight |-> @.inflight - 1,
                                              ignored |-> @.ignored + 1]]
    /\ eng' = [eng EXCEPT ![s] = on_parse_error(@)]
    /\ UNCHANGED <<status, settings, active_commands, task_queue, agent_id, is_connected,
                   sup, task, nreq, tool_responses, tool_queued, enqOrder, deqOrder,
                   first_frame, logs, nlogs, disconnect_requested, wireVars, toolVars>>

\* ------------------------------------------------- tickers of a connection

\* status_task: at each tick an agent_status_update goes to the channel and on
\* to the transport
StatusTick(s) ==
    /\ sup[s].pc = "engine"
    /\ first_frame' = [first_frame EXCEPT ![s] = write_frame(@, "agent_status_update")]
    /\ UNCHANGED <<status, settings, active_commands, task_queue, agent_id, is_connected,
                   sup, eng, task, nreq, tool_responses, tool_queued, enqOrder, deqOrder,
                   logs, nlogs, disconnect_requested,
                   malformed, wireVars, toolVars>>

\* ping_task: at each tick an empty command goes to the channel, written as a ping
PingTick(s) ==
    /\ sup[s].pc = "engine"
    /\ first_frame' = [first_frame EXCEPT ![s] = write_frame(@, "ping")]
    /\ UNCHANGED <<status, settings, active_commands, task_queue, agent_id, is_connected,
                   sup, eng, task, nreq, tool_responses, tool_queued, enqOrder, deqOrder,
                   logs, nlogs, disconnect_requested,
                   malformed, wireVars, toolVars>>

\* ------------------------------------------- execute_task / process_queue

\* execute_task begins: the active count goes up, status Working
TaskStart(r) ==
    /\ task[r].pc = "start"
    /\ active_commands' = increment_active_commands(active_commands)
    /\ status' = "Working"
    /\ task' = [task EXCEPT ![r].pc = "run"]
    /\ UNCHANGED <<settings, task_queue, agent_id, is_connected, sup, eng, nreq,
                   tool_responses, tool_queued, enqOrder, deqOrder,
                   first_frame, logs, nlogs, disconnect_requested,
                   malformed, wireVars, toolVars>>

\* execute_tool returns: the response is handed to the channel (dropped when
\* the channel is closed), the active count goes down, and the status check
\* active == 0 && is_connected is made.
TaskFinish(r) ==
    /\ task[r].pc = "run"
    /\ tool_responses' = IF task[r].tx # 0
                         THEN BagAdd(tool_responses,
                                     ToolResponse(r, SessionOf(r), task[r].was_queued))
                         ELSE tool_responses
    /\ first_frame' = IF task[r].tx # 0
                      THEN [first_frame EXCEPT ![task[r].tx] = write_frame(@, "tool_response")]
                      ELSE first_frame
    /\ LET count == decrement_active_commands(active_commands)
       IN  /\ active_commands' = count
           /\ task' = [task EXCEPT ![r].pc = IF count = 0 /\ is_connected
                                             THEN "revert" ELSE "drain"]
    /\ UNCHANGED <<status, settings, task_queue, agent_id, is_connected, sup, eng, nreq,
                   tool_queued, enqOrder, deqOrder,
                   logs, nlogs, disconnect_requested,
                   malformed, wireVars, toolVars>>

\* The status write that follows a check that passed
TaskRevertStatus(r) ==
    /\ task[r].pc = "revert"
    /\ status' = "Connected"
    /\ task' = [task EXCEPT ![r].pc = "drain"]
    /\ UNCHANGED <<settings, active_commands, task_queue, agent_id, is_connected, sup,
                   eng, nreq, tool_responses, tool_queued, enqOrder, deqOrder,
                   first_frame, logs, nlogs, disconnect_requested,
                   malformed, wireVars, toolVars>>

\* The read loop of a request executed inline resumes when execute_task returns
ResumeReadLoop(r) ==
    IF task[r].was_queued THEN eng
    ELSE [eng EXCEPT ![task[r].conn] = EngRead(eng[task[r].conn].registered)]

\* process_queue: with a free slot and no overload the queue head is popped and
\* its execution spawned, holding the channel of the task that drained it.
ProcessQueue(r) ==
    /\ task[r].pc = "drain"
    /\ \E metrics \in MetricSamples :
         IF \/ drain_blocked(active_commands, settings.max_concurrent_commands, metrics)
            \/ task_queue = <<>>
         THEN /\ task' = [task EXCEPT ![r].pc = "done"]
              /\ UNCHANGED <<task_queue, deqOrder>>
         ELSE LET t == dequeue_front(task_queue)
              IN  /\ task_queue' = dequeue_rest(task_queue)
                  /\ deqOrder' = Append(deqOrder, t.request_id)
                  /\ task' = [task EXCEPT ![r].pc = "done",
                                          ![t.request_id] =
                                             [@ EXCEPT !.pc = "start", !.was_queued = TRUE,
                                                       !.tx = task[r].tx]]
    /\ eng' = ResumeReadLoop(r)
    /\ UNCHANGED <<status, settings, active_commands, agent_id, is_connected, sup, nreq,
                   tool_responses, tool_queued, enqOrder,
                   first_frame, logs, nlogs, disconnect_requested,
                   malformed, wireVars, toolVars>>

\* ---------------------------------------------------------------- add_log

\* state.rs add_log, under the write lock of the ring: entries are numbered in
\* the order of the calls
AddLog ==
    /\ nlogs < MAX_LOG_ENTRIES + MaxLogOverflow
    /\ nlogs' = nlogs + 1
    /\ logs' = add_log(logs, nlogs + 1)
    /\ UNCHANGED <<status, settings, active_commands, task_queue, agent_id, is_connected,
                   sup, eng, task, nreq, tool_responses, tool_queued, enqOrder, deqOrder,
                   first_frame, disconnect_requested,
                   malformed, wireVars, toolVars>>

\* ------------------------------------------------------------------- Next

\* connect() with no supervisor loop alive
ConnectAlone == FreeSlots = Sups /\ Connect

\* The steps of the agent's own tasks: supervisor, read loop, tickers, tasks
AgentStep ==
    \/ \E s \in Sups : SupStart(s)
    \/ \E s \in Sups : ConnectOk(s)
    \/ \E s \in Sups : ConnectFail(s)
    \/ \E s \in Sups : EngineClose(s)
    \/ \E s \in Sups : AgentRegistered(s)
    \/ \E s \in Sups : ToolRequest(s)
    \/ \E s \in Sups : Enqueue(s)
    \/ \E s \in Sups : NotifyQueued(s)
    \/ \E s \in Sups : StatusTick(s)
    \/ \E s \in Sups : PingTick(s)
    \/ \E r \in Requests : TaskStart(r)
    \/ \E r \in Requests : TaskFinish(r)
    \/ \E r \in Requests : TaskRevertStatus(r)
    \/ \E r \in Requests : ProcessQueue(r)

Next ==
    \/ ConnectAlone
    \/ \E s \in Sups : ServerSend(s)
    \/ AgentStep

Spec == Init /\ [][Next]_vars

\* The UI's commands connect and disconnect with the agent running
NextUI ==
    \/ Connect
    \/ Disconnect
    \/ \E s \in Sups : ServerSendWithin(s, MaxUIRequests)
    \/ AgentStep

SpecUI == Init /\ [][NextUI]_vars

\* The UI's commands and the tray's: "tray-connect" spawns a loop without
\* looking at is_connected ("tray-disconnect" is disconnect)
NextTray ==
    \/ NextUI
    \/ TrayConnect

SpecTray == Init /\ [][NextTray]_vars

\* One supervisor loop at a time, through failed opens and closed connections,
\* while the settings are updated and the server sends frames that do not parse
NextRetry ==
    \/ ConnectAlone
    \/ UpdateSettings
    \/ \E s \in Sups : ServerSendMalformed(s)
    \/ \E s \in Sups : IgnoreMalformed(s)
    \/ \E s \in Sups : ServerSendWithin(s, MaxUIRequests)
    \/ AgentStep

SpecRetry == Init /\ [][NextRetry]_vars

\* One connection that stays open (the server does not close it and the open
\* does not fail) while the settings are updated
NextSettings ==
    \/ ConnectAlone
    \/ UpdateSettings
    \/ \E s \in Sups : ServerSendWithin(s, MaxDrainRequests)
    \/ \E s \in Sups : SupStart(s)
    \/ \E s \in Sups : ConnectOk(s)
    \/ \E s \in Sups : AgentRegistered(s)
    \/ \E s \in Sups : ToolRequest(s)
    \/ \E s \in Sups : Enqueue(s)
    \/ \E s \in Sups : NotifyQueued(s)
    \/ \E s \in Sups : StatusTick(s)
    \/ \E s \in Sups : PingTick(s)
    \/ \E r \in Requests : TaskStart(r)
    \/ \E r \in Requests : TaskFinish(r)
    \/ \E r \in Requests : TaskRevertStatus(r)
    \/ \E r \in Requests : ProcessQueue(r)

SpecSettings == Init /\ [][NextSettings]_vars

\* One connection that stays open, with auto-connect set and one command at a
\* time: the read loop and the tasks alone
InitDrain ==
    /\ Init
    /\ settings = [max_concurrent_commands |-> 1, auto_connect_on_launch |-> TRUE]

NextDrain ==
    \/ \E s \in Sups : ServerSendWithin(s, MaxDrainRequests)
    \/ \E s \in Sups : SupStart(s)
    \/ \E s \in Sups : ConnectOk(s)
    \/ \E s \in Sups : AgentRegistered(s)
    \/ \E s \in Sups : ToolRequest(s)
    \/ \E s \in Sups : Enqueue(s)
    \/ \E s \in Sups : NotifyQueued(s)
    \/ \E r \in Requests : TaskStart(r)
    \/ \E r \in Requests : TaskFinish(r)
    \/ \E r \in Requests : TaskRevertStatus(r)
    \/ \E r \in Requests : ProcessQueue(r)

SpecDrain == InitDrain /\ [][NextDrain]_vars

\* The log ring alone
SpecLog == Init /\ [][AddLog]_vars

\* ------------------------------------------ outbound path of one connection
\* handle_connection's channel, its two tickers and its write task, with the
\* senders of the tasks, on conn_tasks, chan, written, sent and nframes.

\* WsCommand::Send(msg): the empty string asks for a ping
SendCmd(msg) == [cmd |-> "Send", msg |-> msg]
CloseCmd == [cmd |-> "Close", msg |-> <<>>]

\* A JSON text of the given kind; the serial number tells two texts apart
Json(kind, n) == <<kind, n>>

\* write_task: Send("") is written as Message::Ping, any other text as
\* Message::Text
to_message(cmd) ==
    IF cmd.msg = <<>> THEN [type |-> "Ping", text |-> <<>>]
    ELSE [type |-> "Text", text |-> cmd.msg]

\* A receiver that hands out the newest command
channel_recv_newest(c) == [cmd |-> c[Len(c)], rest |-> SubSeq(c, 1, Len(c) - 1)]

\* rx.recv(): the oldest command of the channel
channel_recv(c) == [cmd |-> Head(c), rest |-> Tail(c)]

\* A cleanup that leaves the task running
abort_forgotten(alive) == alive

\* JoinHandle::abort(): the task does not run again
abort(alive) == FALSE

\* tx.send(cmd): the command is put into the channel while the receiver,
\* owned by write_task, exists; else the send fails
tx_send_ok == conn_tasks.write_task

\* handle_connection up to the read loop: new channel, agent_register written
\* directly on the sink, the three tasks spawned
WireOpen ==
    /\ conn_tasks.engine \in {"none", "returned"}
    /\ nframes < MaxFrames
    /\ conn_tasks' = [engine |-> "read", status_task |-> TRUE, ping_task |-> TRUE,
                      write_task |-> TRUE]
    /\ chan' = <<>>
    /\ written' = <<[type |-> "Text", text |-> Json("agent_register", 0)]>>
    /\ sent' = <<>>
    /\ UNCHANGED <<nframes, status, settings, active_commands, task_queue, agent_id,
                   is_connected, sup, eng, task, nreq, tool_responses, tool_queued,
                   enqOrder, deqOrder, first_frame, logs, nlogs, disconnect_requested,
                   malformed, toolVars>>

\* A producer holding a clone of tx sends a command; ticker names the task
\* that breaks out of its loop when the send fails ("none" for a tool task,
\* which ignores the failure)
TxSend(cmd, ticker) ==
    /\ nframes < MaxFrames
    /\ nframes' = nframes + 1
    /\ IF tx_send_ok
       THEN /\ chan' = Append(chan, cmd)
            /\ sent' = Append(sent, cmd)
            /\ UNCHANGED conn_tasks
       ELSE /\ conn_tasks' = IF ticker = "none" THEN conn_tasks
                             ELSE [conn_tasks EXCEPT ![ticker] = FALSE]
            /\ UNCHANGED <<chan, sent>>
    /\ UNCHANGED <<written, status, settings, active_commands, task_queue, agent_id,
                   is_connected, sup, eng, task, nreq, tool_responses, tool_queued,
                   enqOrder, deqOrder, first_frame, logs, nlogs, disconnect_requested,
                   malformed, toolVars>>

\* status_task: one round of its loop
StatusTaskSend ==
    /\ conn_tasks.status_task
    /\ TxSend(SendCmd(Json("agent_status_update", nframes + 1)), "status_task")

\* ping_task: one round of its loop
PingTaskSend ==
    /\ conn_tasks.ping_task
    /\ TxSend(SendCmd(<<>>), "ping_task")

\* execute_task and handle_message send tool_response, tool_queued and the
\* answer to get_status on their clone of tx, which outlives the connection
ToolTaskSend ==
    /\ conn_tasks.engine # "none"
    /\ \E kind \in {"tool_response", "tool_queued"} :
          TxSend(SendCmd(Json(kind, nframes + 1)), "none")

\* write_task: one round of its loop
WriteTask ==
    /\ conn_tasks.write_task
    /\ chan # <<>>
    /\ LET r == channel_recv(chan)
       IN  IF r.cmd.cmd = "Close"
           THEN /\ conn_tasks' = [conn_tasks EXCEPT !.write_task = FALSE]
                /\ chan' = <<>>
                /\ UNCHANGED written
           ELSE /\ written' = Append(written, to_message(r.cmd))
                /\ chan' = r.rest
                /\ UNCHANGED conn_tasks
    /\ UNCHANGED <<sent, nframes, status, settings, active_commands, task_queue, agent_id,
                   is_connected, sup, eng, task, nreq, tool_responses, tool_queued,
                   enqOrder, deqOrder, first_frame, logs, nlogs, disconnect_requested,
                   malformed, toolVars>>

\* write_task: write.send fails and the task breaks out of its loop; the
\* receiver is dropped with what the channel holds
WriteError ==
    /\ conn_tasks.write_task
    /\ chan # <<>>
    /\ channel_recv(chan).cmd.cmd = "Send"
    /\ conn_tasks' = [conn_tasks EXCEPT !.write_task = FALSE]
    /\ chan' = <<>>
    /\ UNCHANGED <<written, sent, nframes, status, settings, active_commands, task_queue,
                   agent_id, is_connected, sup, eng, task, nreq, tool_responses,
                   tool_queued, enqOrder, deqOrder, first_frame, logs, nlogs,
                   disconnect_requested, malformed, toolVars>>

\* The read loop ends: Close frame, read error or end of stream
ReadLoopEnds ==
    /\ conn_tasks.engine = "read"
    /\ conn_tasks' = [conn_tasks EXCEPT !.engine = "cleanup"]
    /\ UNCHANGED <<chan, written, sent, nframes, status, settings, active_commands,
                   task_queue, agent_id, is_connected, sup, eng, task, nreq,
                   tool_responses, tool_queued, enqOrder, deqOrder, first_frame, logs,
                   nlogs, disconnect_requested, malformed, toolVars>>

\* Cleanup: `let _ = tx.send(WsCommand::Close).await`
CleanupClose ==
    /\ conn_tasks.engine = "cleanup"
    /\ conn_tasks' = [conn_tasks EXCEPT !.engine = "abort"]
    /\ chan' = IF tx_send_ok THEN Append(chan, CloseCmd) ELSE chan
    /\ UNCHANGED <<written, sent, nframes, status, settings, active_commands,
                   task_queue, agent_id, is_connected, sup, eng, task, nreq,
                   tool_responses, tool_queued, enqOrder, deqOrder, first_frame, logs,
                   nlogs, disconnect_requested, malformed, toolVars>>

\* Cleanup: the three aborts, then handle_connection returns
CleanupAbort ==
    /\ conn_tasks.engine = "abort"
    /\ conn_tasks' = [engine |-> "returned",
                      status_task |-> abort(conn_tasks.status_task),
                      ping_task |-> abort(conn_tasks.ping_task),
                      write_task |-> abort(conn_tasks.write_task)]
    /\ chan' = IF conn_tasks'.write_task THEN chan ELSE <<>>
    /\ UNCHANGED <<written, sent, nframes, status, settings, active_commands,
                   task_queue, agent_id, is_connected, sup, eng, task, nreq,
                   tool_responses, tool_queued, enqOrder, deqOrder, first_frame, logs,
                   nlogs, disconnect_requested, malformed, toolVars>>

NextWire ==
    \/ WireOpen
    \/ StatusTaskSend
    \/ PingTaskSend
    \/ ToolTaskSend
    \/ WriteTask
    \/ WriteError
    \/ ReadLoopEnds
    \/ CleanupClose
    \/ CleanupAbort

SpecWire == Init /\ [][NextWire]_vars

\* ------------------------------------------------------- shared predicates

\* The read loop has taken request r off its transport.
Admitted(r) == task[r].pc \notin {"none", "sent", "lost"}

\* A tool_response carrying r's requestId and sessionId has been produced.
Answered(r) ==
    \E f \in BagToSet(tool_responses) : f.requestId = r /\ f.sessionId = SessionOf(r)

\* r is between the admission that let it through and the end of its drain step.
InProgress(r) == task[r].pc \in {"start", "run", "revert", "drain"}

\* Nothing is in progress: no request is in flight or being handled, no task is
\* between its admission and the end of its drain step.
AgentIdle ==
    /\ \A r \in Requests : task[r].pc \in {"none", "lost", "queued", "done"}
    /\ \A s \in Sups : eng[s].pc \in {"off", "read"}

QueuedIds == [i \in 1..Len(task_queue) |-> task_queue[i].request_id]

\* While the agent is idle, nothing but a new request from the server changes a
\* task or the queue: reconnecting, registering and connect() do not drain.
IdleAgentStaysIdle ==
    [][(AgentIdle /\ nreq' = nreq) =>
          (AgentIdle' /\ task_queue' = task_queue /\ active_commands' = active_commands)]_vars

\* ------------------------------------------------------------------ claims

\* C1: every admitted tool_request eventually gets a tool_response with its
\* requestId and sessionId.  Stated on the runs that have come to rest: once the
\* agent is idle (it stays so unless the server sends more, IdleAgentStaysIdle),
\* every request it admitted has been answered.
C1_AdmittedRequestsAnswered ==
    AgentIdle => \A r \in Requests : Admitted(r) => Answered(r)

\* C2: no request gets more than one tool_response, every tool_response carries
\* the requestId and sessionId of a request the agent admitted, and no queued
\* task is dequeued (and so executed) twice.
C2_AtMostOneResponse ==
    /\ \A f \in BagToSet(tool_responses) :
          /\ CopiesIn(f, tool_responses) = 1
          /\ f.requestId \in Requests
          /\ Admitted(f.requestId)
          /\ f.sessionId = SessionOf(f.requestId)
          /\ \A g \in BagToSet(tool_responses) : g.requestId = f.requestId => g = f
    /\ \A i, j \in 1..Len(deqOrder) : deqOrder[i] = deqOrder[j] => i = j

\* C2's case: a task taken from the queue and a task executed on arrival have
\* both been answered.
C2_Witness ==
    \E f, g \in BagToSet(tool_responses) : f.queued = Some(TRUE) /\ g.queued = None

\* C3 as claimed: in every reachable state the active count is at most
\* maxConcurrentCommands.
C3_ActiveWithinMax == active_commands <= settings.max_concurrent_commands

\* C3 as amended: whenever a run_command is let through to execution, on
\* arrival or by the drain step, the active count that decision read is below
\* the limit it used: the connection's settings snapshot on arrival, the
\* current settings in the drain step.
C3_AdmittedBelowMax ==
    [][\A r \in Requests :
          (task[r].pc # "start" /\ task'[r].pc = "start" /\ task[r].tool = "run_command")
          => active_commands <
                (IF task[r].pc = "sent"
                 THEN sup[task[r].conn].max_concurrent
                 ELSE settings.max_concurrent_commands)]_vars

\* C3's case: a run_command admitted on arrival and one admitted by the drain
\* step are executing together.
C3_Witness ==
    \E r, q \in Requests :
        /\ task[r].tool = "run_command" /\ task[r].pc = "run" /\ task[r].was_queued
        /\ task[q].tool = "run_command" /\ task[q].pc = "run" /\ ~task[q].was_queued

\* C4: with no tool running and no new request the queue drains to empty: the
\* agent is never idle with a task left in the queue and an active count of 0
\* (it would stay so, IdleAgentStaysIdle).
C4_QueueDrainsWhenIdle ==
    ~(AgentIdle /\ task_queue # <<>> /\ active_commands = 0)

\* C5: with maxConcurrentCommands = 1, a run_command sent while the first
\* run_command is executing gets a tool_queued with queuePosition 1 and the
\* reason "Max concurrent commands reached", and is answered with queued = true
\* and queuePosition = 0; the first is executed at once, with no tool_queued.
C5_SecondCommandQueued ==
    ( /\ nreq >= 2
      /\ task[1].tool = "run_command" /\ task[2].tool = "run_command"
      /\ task[2].during = 1
      /\ sup[task[2].conn].max_concurrent = 1
      /\ task[2].pc \in {"start", "run", "revert", "drain", "done"} )
    => /\ ~task[1].was_queued
       /\ \A f \in BagToSet(tool_queued) : f.requestId # 1
       /\ \E f \in BagToSet(tool_queued) :
             /\ f.requestId = 2
             /\ f.queuePosition = 1
             /\ f.reason = "Max concurrent commands reached"
       /\ task[2].was_queued
       /\ \A f \in BagToSet(tool_responses) :
             f.requestId = 2 => f.queued = Some(TRUE) /\ f.queuePosition = Some(0)

\* C6: only run_command tasks are queued: every queue entry is a run_command,
\* and no tool_queued frame is emitted for a request of another tool.
C6_OnlyRunCommandQueued ==
    /\ \A i \in 1..Len(task_queue) : task_queue[i].tool = "run_command"
    /\ \A i \in 1..Len(enqOrder) : task[enqOrder[i]].tool = "run_command"
    /\ \A f \in BagToSet(tool_queued) : task[f.requestId].tool = "run_command"

\* C6's case: a read_file admitted while the active count was at or above the
\* maximum is executing, read inline by its connection.
C6_Witness ==
    \E s \in Sups :
        /\ eng[s].pc = "inline"
        /\ eng[s].active >= sup[s].max_concurrent
        /\ task[eng[s].req].tool = "read_file"
        /\ task[eng[s].req].pc = "run"

\* C7: the queue is FIFO: the tasks dequeued so far, followed by the tasks still
\* queued, are the tasks in the order they were enqueued.
C7_QueueIsFifo == enqOrder = deqOrder \o QueuedIds

\* C7's case: two tasks that waited in the queue together (the second was told
\* a position of 2 or more) have both been dequeued.
C7_Witness ==
    /\ Len(deqOrder) >= 2
    /\ \E f \in BagToSet(tool_queued) :
          /\ f.queuePosition >= 2
          /\ \E i \in 1..Len(deqOrder) : deqOrder[i] = f.requestId

\* C8: no starvation: a run_command enqueued because the active count was at
\* the maximum is taken out by the drain step of the task that held the slot.
\* So whenever enqueue_task takes such a request, a slot holder is still in
\* progress: enqueued after the last holder's drain step, the request is left in
\* the queue with nothing to drain it (IdleAgentStaysIdle).
C8_EnqueuedBehindSlotHolder ==
    [][\A s \in Sups :
          ( /\ eng[s].pc = "enqueue" /\ eng'[s].pc = "notify"
            /\ eng[s].active >= sup[s].max_concurrent )
          => \E q \in Requests : InProgress(q)]_vars

\* C9: agent_id is set only while connected and after the registration
\* acknowledgement of the current connection.
C9_AgentIdOnlyWhileRegistered ==
    agent_id # None =>
        /\ is_connected
        /\ \E s \in Sups : sup[s].pc = "engine" /\ eng[s].registered

\* C10: while connected with an active count above zero the status is Working.
C10_WorkingWhileActive ==
    (is_connected /\ active_commands > 0) => status = "Working"

\* C11: for each requestId at most one tool_queued frame is emitted, and it is
\* emitted before that request's tool_response: whenever a tool_queued frame is
\* handed to the channel, no frame of that request was handed to it before,
\* neither a tool_queued nor a tool_response.
C11_QueuedNoticeBeforeResponse ==
    [][\A r \in Requests :
          (\E f \in BagToSet(tool_queued') :
               f.requestId = r /\ CopiesIn(f, tool_queued') > CopiesIn(f, tool_queued))
          => /\ \A f \in BagToSet(tool_queued) : f.requestId # r
             /\ ~Answered(r)]_vars

\* C12: a tool_response carries queued = true and queuePosition = 0 exactly
\* when its task was taken from the queue (its id is among the dequeued ones);
\* the response of a task executed on arrival carries neither field.
C12_QueuedFieldsIffDequeued ==
    \A f \in BagToSet(tool_responses) :
        IF \E i \in 1..Len(deqOrder) : deqOrder[i] = f.requestId
        THEN f.queued = Some(TRUE) /\ f.queuePosition = Some(0)
        ELSE f.queued = None /\ f.queuePosition = None

\* C12's case: a response of a dequeued task and a response of a task that
\* never was in the queue have both been produced.
C12_Witness ==
    /\ \E f \in BagToSet(tool_responses) :
          \E i \in 1..Len(deqOrder) : deqOrder[i] = f.requestId
    /\ \E f \in BagToSet(tool_responses) :
          \A i \in 1..Len(enqOrder) : enqOrder[i] # f.requestId

\* C13: when a run_command is enqueued, the position kept for its notice is the
\* queue length right after the insertion, at least 1, with the request at the
\* queue's end; the notice carries that position, the reason "Max concurrent
\* commands reached" whenever the admission read active >= max, and "System
\* load high" only when it read active < max with the system overloaded.
C13_NoticePositionAndReason ==
    [][\A s \in Sups :
          /\ (eng[s].pc = "enqueue" /\ eng'[s].pc = "notify")
             => /\ eng'[s].position = Len(task_queue) + 1
                /\ eng'[s].position = Len(task_queue')
                /\ eng'[s].position >= 1
                /\ task_queue'[Len(task_queue')].request_id = eng[s].req
          /\ (eng[s].pc = "notify" /\ eng'[s].pc # "notify")
             => \E f \in BagToSet(tool_queued') :
                   /\ CopiesIn(f, tool_queued') > CopiesIn(f, tool_queued)
                   /\ f.requestId = eng[s].req
                   /\ f.queuePosition = eng[s].position
                   /\ f.reason \in {"Max concurrent commands reached", "System load high"}
                   /\ (eng[s].active >= sup[s].max_concurrent
                         => f.reason = "Max concurrent commands reached")
                   /\ (f.reason = "System load high"
                         => eng[s].active < sup[s].max_concurrent /\ eng[s].overloaded)]_vars

\* C13's case: a notice for overload with a free slot and a notice for the
\* maximum have both been sent.
C13_Witness ==
    /\ \E f \in BagToSet(tool_queued) : f.reason = "System load high"
    /\ \E f \in BagToSet(tool_queued) : f.reason = "Max concurrent commands reached"

\* C14: on every connection, reconnects included, agent_register is the first
\* frame written to the transport: a transport carries no frame until
\* agent_register, and while its engine runs agent_register is its first frame.
C14_RegisterIsFirstFrame ==
    \A s \in Sups :
        /\ first_frame[s] \in {"none", "agent_register"}
        /\ sup[s].pc = "engine" => first_frame[s] = "agent_register"

\* C14's case: on a connection opened after an earlier one was closed by the
\* server (request r was lost with it), a later request has been answered.
C14_Witness ==
    \E s \in Sups, r, q \in Requests :
        /\ sup[s].pc = "engine" /\ first_frame[s] = "agent_register"
        /\ task[r].pc = "lost"
        /\ q > r /\ task[q].conn = s /\ Answered(q)

\* C15: the retry rule.  When the open fails or the engine returns, the loop
\* goes on to its reconnect delay if and only if auto_connect_on_launch is true
\* at that moment, and leaves otherwise; from the delay it only goes on to the
\* next attempt, and a loop that has left makes no further attempt (its slot
\* is taken again only by a newly spawned loop, at its top).
C15_RetryIffAutoConnect ==
    [][\A s \in Sups :
          /\ (sup[s].pc \in {"connect", "engine"} /\ sup'[s].pc \notin {"connect", "engine"})
             => sup'[s].pc = (IF settings.auto_connect_on_launch THEN "sleep" ELSE "none")
          /\ sup[s].pc = "sleep" => sup'[s].pc \in {"sleep", "connect"}
          /\ sup[s].pc = "none" => sup'[s].pc \in {"none", "start"}]_vars

\* C15's case: after a connection that was acknowledged, every loop has left.
C15_Witness ==
    /\ agent_id # None
    /\ \A s \in Sups : sup[s].pc = "none"
    /\ ~settings.auto_connect_on_launch

\* The engine of connection s, after a disconnect(), is waiting in its read
\* loop for the next frame of the server.
WaitingAfterDisconnect(s) ==
    /\ disconnect_requested
    /\ sup[s].pc = "engine"
    /\ eng[s].pc = "read"
    /\ InFlight(s) = {}

\* Such an engine stays there until the server sends a request or closes the
\* transport, or the user asks to connect again: no step of the agent ends it.
WaitingEngineStays ==
    [][\A s \in Sups :
          ( /\ WaitingAfterDisconnect(s)
            /\ nreq' = nreq
            /\ first_frame'[s] = first_frame[s]
            /\ disconnect_requested' )
          => WaitingAfterDisconnect(s)']_vars

\* C16: after a manual disconnect() the engine that was running terminates
\* without the server closing the transport: no engine is left waiting in its
\* read loop after a disconnect() (it would stay there, WaitingEngineStays).
C16_EngineUnwindsAfterDisconnect ==
    \A s \in Sups : ~WaitingAfterDisconnect(s)

\* C17: after disconnect() the supervisor does not open the transport again on
\* its own: no loop goes from its reconnect delay to a new attempt while a
\* disconnect() stands (no connect request was made since).
C17_NoReconnectAfterDisconnect ==
    [][\A s \in Sups :
          (sup[s].pc = "sleep" /\ sup'[s].pc = "connect") => ~disconnect_requested]_vars

\* C18: connect() while the agent is connected is a no-op: a step that spawns a
\* supervisor loop is taken only with is_connected false.
C18_ConnectIdempotent ==
    [][(\E s \in Sups : sup[s].pc = "none" /\ sup'[s].pc = "start") => ~is_connected]_vars

\* C18's case: the agent is connected and a second loop could be spawned:
\* connect() invoked here returns at once.
C18_Witness ==
    /\ is_connected
    /\ FreeSlots # {}
    /\ connect_returns_early(is_connected)
    /\ \E s \in Sups : sup[s].pc = "engine" /\ eng[s].registered

\* C19: update_settings takes effect on the next reconnect: while a connection
\* is open the drain step decides by the limit the connection started with, as
\* the admission does: a task is dequeued only with the active count below the
\* settings snapshot of the open connection.
C19_DrainUsesConnectionSettings ==
    [][deqOrder' # deqOrder =>
          \A s \in Sups : sup[s].pc = "engine" => active_commands < sup[s].max_concurrent]_vars

\* C20: the log ring never holds more than 500 entries, and it holds the most
\* recent entries in the order they were appended: the last min(n, 500) of the
\* n entries appended so far.
C20_LogRingKeepsNewest ==
    /\ Len(logs) <= MAX_LOG_ENTRIES
    /\ Len(logs) = (IF nlogs < MAX_LOG_ENTRIES THEN nlogs ELSE MAX_LOG_ENTRIES)
    /\ \A i \in 1..Len(logs) : logs[i] = nlogs - Len(logs) + i

\* C20's case: more entries were appended than the ring holds.
C20_Witness ==
    /\ nlogs > MAX_LOG_ENTRIES + 1
    /\ Len(logs) = MAX_LOG_ENTRIES
    /\ logs[1] = nlogs - MAX_LOG_ENTRIES + 1

\* C23: a malformed inbound frame is silently ignored: the step in which the
\* read loop takes it changes no shared state (status, active count, queue,
\* agent_id, is_connected, settings), produces no outbound frame, starts and
\* changes no task, and leaves the engine and its supervisor as they are.
C23_MalformedFrameIgnored ==
    [][\A s \in Sups :
          (malformed'[s].ignored > malformed[s].ignored)
          => /\ UNCHANGED <<status, active_commands, task_queue, agent_id, is_connected,
                            settings, tool_responses, tool_queued, first_frame, task>>
             /\ eng'[s] = eng[s]
             /\ sup'[s] = sup[s]
             /\ sup[s].pc = "engine"]_vars

\* C23's case: a malformed frame was ignored on a connection that is
\* registered and has a task in its queue.
C23_Witness ==
    \E s \in Sups :
        /\ malformed[s].ignored > 0
        /\ eng[s].registered
        /\ task_queue # <<>>

C30_SupervisorStatusProtocol ==
    [][\A s \in Sups :
          /\ (sup[s].pc # "connect" /\ sup'[s].pc = "connect") => status' = "Connecting"
          /\ (sup[s].pc # "engine" /\ sup'[s].pc = "engine")
                => (sup[s].pc = "connect" /\ status' = "Connected" /\ is_connected')
          /\ (sup[s].pc \in {"connect", "engine"} /\ sup'[s].pc \in {"sleep", "none"})
                => (status' = "Disconnected" /\ ~is_connected')]_vars

\* ------------------------------------------------------------ tools.rs
\* execute_tool on the file system fs and the set children of the processes
\* that are running when a call has returned.

\* U+FFFD, which from_utf8_lossy puts in place of an invalid sequence
REPLACEMENT_CHARACTER == 65533

\* An encoding of one byte for every character
as_bytes_narrow(text) == text

RECURSIVE as_bytes(_)
\* str::as_bytes: the UTF-8 encoding (code points below U+0800)
as_bytes(text) ==
    IF text = <<>> THEN <<>>
    ELSE (IF Head(text) < 128 THEN <<Head(text)>>
          ELSE <<192 + (Head(text) \div 64), 128 + (Head(text) % 64)>>)
         \o as_bytes(Tail(text))

\* A two-byte sequence starts the bytes
TwoByteHead(bytes) ==
    /\ Len(bytes) >= 2
    /\ bytes[1] \in 194..223
    /\ bytes[2] \in 128..191

RECURSIVE from_utf8_lossy(_)
\* String::from_utf8_lossy
from_utf8_lossy(bytes) ==
    IF bytes = <<>> THEN <<>>
    ELSE IF bytes[1] < 128 THEN <<bytes[1]>> \o from_utf8_lossy(Tail(bytes))
    ELSE IF TwoByteHead(bytes)
         THEN <<(bytes[1] - 192) * 64 + (bytes[2] - 128)>>
              \o from_utf8_lossy(SubSeq(bytes, 3, Len(bytes)))
    ELSE <<REPLACEMENT_CHARACTER>> \o from_utf8_lossy(Tail(bytes))

RECURSIVE is_utf8(_)
\* The bytes are valid UTF-8
is_utf8(bytes) ==
    IF bytes = <<>> THEN TRUE
    ELSE IF bytes[1] < 128 THEN is_utf8(Tail(bytes))
    ELSE TwoByteHead(bytes) /\ is_utf8(SubSeq(bytes, 3, Len(bytes)))

\* str::trim().is_empty(): only white space (line feed, space)
trim_is_empty(text) == \A i \in 1..Len(text) : text[i] \in {10, 32}

\* Where a path points: relative paths start at the process directory
Location(path) == IF path.abs THEN path.comps ELSE ProcessDir \o path.comps

\* Path::exists
exists(world, path) == Location(path) \in DOMAIN world

\* Path::parent of a path with at least one component
parent(path) == Path(path.abs, SubSeq(path.comps, 1, Len(path.comps) - 1))

\* The locations from the root down to loc
Prefixes(loc) == {SubSeq(loc, 1, k) : k \in 0..Len(loc)}

\* tokio::fs::create_dir_all: fails when a file is in the way
create_dir_all_ok(world, path) ==
    \A l \in Prefixes(Location(path)) : l \in DOMAIN world => world[l].kind = "dir"

create_dir_all(world, path) ==
    [l \in DOMAIN world \cup Prefixes(Location(path)) |->
        IF l \in DOMAIN world THEN world[l] ELSE Dir]

\* tokio::fs::write: the parent must be a directory and the path none
fs_write_ok(world, path) ==
    /\ path.comps # <<>>
    /\ exists(world, parent(path))
    /\ world[Location(parent(path))].kind = "dir"
    /\ exists(world, path) => world[Location(path)].kind = "file"

fs_write(world, path, bytes) ==
    [l \in DOMAIN world \cup {Location(path)} |->
        IF l = Location(path) THEN [kind |-> "file", content |-> bytes] ELSE world[l]]

\* tokio::fs::read_to_string of an existing path: a file of valid UTF-8
read_to_string_ok(world, path) ==
    /\ world[Location(path)].kind = "file"
    /\ is_utf8(world[Location(path)].content)

read_to_string(world, path) == from_utf8_lossy(world[Location(path)].content)

\* A resolve that joins every path to cwd
resolve_path_always_joins(cwd, path) == Path(cwd.abs, cwd.comps \o path.comps)

\* tools.rs resolve_path
resolve_path(cwd, path) ==
    IF path.abs THEN path ELSE Path(cwd.abs, cwd.comps \o path.comps)

ToolResult(result, metrics, error) ==
    [result |-> result, metrics |-> metrics, error |-> error]

\* An error text; code is the number put into "Exit code: {}"
ErrorText(msg) == [msg |-> msg, code |-> 0]

ProcessMetrics(duration_ms) ==
    [cpu_percent |-> 0, memory_mb |-> 0, duration_ms |-> duration_ms]

\* What a call leaves behind: its ToolResult, the file system, the path it
\* resolved, and its child process: none, reaped (it has exited and was
\* waited for) or left (still running, no longer owned by anyone)
Done(out, world, full_path, child) ==
    [out |-> out, world |-> world, full_path |-> full_path, child |-> child]

Failed(msg, world, full_path) ==
    Done(ToolResult(Text("Error: {}", <<>>), None, Some(ErrorText(msg))),
         world, full_path, "none")

\* tools.rs execute_read_file
execute_read_file(input, cwd, world) ==
    IF input.path = None THEN Failed("Missing 'path' parameter", world, None)
    ELSE LET full_path == resolve_path(cwd, input.path[1])
         IN  IF ~exists(world, full_path)
             THEN Failed("File not found", world, Some(full_path))
             ELSE IF read_to_string_ok(world, full_path)
             THEN Done(ToolResult(Text("{}", read_to_string(world, full_path)), None, None),
                       world, Some(full_path), "none")
             ELSE Failed("io error", world, Some(full_path))

\* execute_write_file: `if !parent.exists()`, the parent directories are
\* created first
write_creates_parent(world, path) == ~exists(world, parent(path))

\* tools.rs execute_write_file
execute_write_file(input, cwd, world) ==
    IF input.path = None THEN Failed("Missing 'path' parameter", world, None)
    ELSE IF input.content = None THEN Failed("Missing 'content' parameter", world, None)
    ELSE LET full_path == resolve_path(cwd, input.path[1])
             create == full_path.comps # <<>> /\ write_creates_parent(world, full_path)
             made == IF create /\ create_dir_all_ok(world, parent(full_path))
                     THEN create_dir_all(world, parent(full_path)) ELSE world
         IN  IF create /\ ~create_dir_all_ok(world, parent(full_path))
             THEN Failed("io error", world, Some(full_path))
             ELSE IF fs_write_ok(made, full_path)
             THEN Done(ToolResult(Text("Successfully wrote to {}", <<>>), None, None),
                       fs_write(made, full_path, as_bytes(input.content[1])),
                       Some(full_path), "none")
             ELSE Failed("io error", made, Some(full_path))

\* glob: the entries of the directory (pattern "*")
Entries(world, path) ==
    {l \in DOMAIN world : Len(l) = Len(Location(path)) + 1
                           /\ SubSeq(l, 1, Len(l) - 1) = Location(path)}

\* tools.rs execute_list_files: path defaults to ".", pattern to "*"; the
\* pattern "[" is one that glob rejects
execute_list_files(input, cwd, world) ==
    LET path == IF input.path = None THEN Path(FALSE, <<>>) ELSE input.path[1]
        full_path == resolve_path(cwd, path)
    IN  IF ~exists(world, full_path)
        THEN Failed("Directory not found", world, Some(full_path))
        ELSE IF input.pattern = Some("[")
        THEN Failed("pattern error", world, Some(full_path))
        ELSE IF Entries(world, full_path) = {}
        THEN Done(ToolResult(Text("(no files found)", <<>>), None, None),
                  world, Some(full_path), "none")
        ELSE Done(ToolResult(Text("{files}", <<>>), None, None),
                  world, Some(full_path), "none")

\* A selection that looks at stderr first
result_text_stderr_first(stdout, stderr) ==
    IF stderr # <<>> THEN Text("{}", stderr)
    ELSE IF stdout # <<>> THEN Text("{}", stdout)
    ELSE Text("(command completed with no output)", <<>>)

\* execute_run_command: result_text
result_text(stdout, stderr) ==
    IF stdout # <<>> THEN Text("{}", stdout)
    ELSE IF stderr # <<>> THEN Text("{}", stderr)
    ELSE Text("(command completed with no output)", <<>>)

\* execute_run_command: output.status.success() and code().unwrap_or(-1)
exit_error(code) ==
    IF code = Some(0) THEN None
    ELSE Some([msg |-> "Exit code: {}", code |-> IF code = None THEN -1 ELSE code[1]])

\* Dropping the Child of a Command built without kill_on_drop(true) does not
\* kill the process
drop_child == "left"

\* tools.rs execute_run_command; os is what the operating system does with
\* the command
execute_run_command(input, cwd, world, os) ==
    IF input.command = None THEN Failed("Missing 'command' parameter", world, None)
    ELSE IF os.kind = "spawn_err" THEN Failed("io error", world, None)
    ELSE IF os.kind = "exit"
    THEN Done(ToolResult(result_text(from_utf8_lossy(os.stdout), from_utf8_lossy(os.stderr)),
                         Some(ProcessMetrics(os.duration_ms)), exit_error(os.code)),
              world, None, "reaped")
    ELSE IF os.kind = "wait_err"
    THEN Done(ToolResult(Text("Error executing command: {}", <<>>),
                         Some(ProcessMetrics(os.duration_ms)), Some(ErrorText("io error"))),
              world, None, "reaped")
    ELSE Done(ToolResult(Text("Command timed out after 120 seconds", <<>>),
                         Some(ProcessMetrics(os.duration_ms)),
                         Some(ErrorText("Command timed out"))),
              world, None, drop_child)

\* tools.rs execute_search_files: a grep run through execute_run_command
execute_search_files(input, cwd, world, os) ==
    IF input.pattern = None THEN Failed("Missing 'pattern' parameter", world, None)
    ELSE LET path == IF input.path = None THEN Path(FALSE, <<>>) ELSE input.path[1]
             full_path == resolve_path(cwd, path)
             ran == execute_run_command(Input(None, None, Some("grep"), None), cwd, world, os)
         IN  IF ran.out.result.fmt = "{}" /\ trim_is_empty(ran.out.result.text)
             THEN Done(ToolResult(Text("No matches found", <<>>), ran.out.metrics, None),
                       ran.world, Some(full_path), ran.child)
             ELSE Done(ran.out, ran.world, Some(full_path), ran.child)

\* An execute_tool that does not test cwd
cwd_always_exists(world, cwd) == TRUE

\* execute_tool: `cwd_path.exists()`
cwd_exists(world, cwd) == exists(world, cwd)

\* tools.rs execute_tool
execute_tool(name, input, cwd, world, os) ==
    IF ~cwd_exists(world, cwd)
    THEN Done(ToolResult(Text("Error: Working directory not found: {}", <<>>), None,
                         Some(ErrorText("Working directory not found"))),
              world, None, "none")
    ELSE IF name = "read_file" THEN execute_read_file(input, cwd, world)
    ELSE IF name = "write_file" THEN execute_write_file(input, cwd, world)
    ELSE IF name = "list_files" THEN execute_list_files(input, cwd, world)
    ELSE IF name = "run_command" THEN execute_run_command(input, cwd, world, os)
    ELSE IF name = "search_files" THEN execute_search_files(input, cwd, world, os)
    ELSE Done(ToolResult(Text("Unknown tool: {}", <<>>), None,
                         Some(ErrorText("Unknown tool: {}"))),
              world, None, "none")

\* The tool names of a request: the five tools and one that is none of them
ToolCallNames == {"read_file", "write_file", "list_files", "run_command", "search_files",
                  "delete_file"}

\* Working directories: /w and w exist, /x does not
Cwds == {Path(TRUE, <<"w">>), Path(FALSE, <<"w">>), Path(TRUE, <<"x">>)}

\* Paths: a file of cwd, a file in a directory that does not exist yet, the
\* directory itself, and an absolute path outside every cwd
Paths == {Path(FALSE, <<"f">>), Path(FALSE, <<"d", "f">>), Path(FALSE, <<"d">>),
          Path(TRUE, <<"x", "f">>)}

\* Texts: empty, ASCII, and with a character of two bytes
Texts == {<<>>, <<104>>, <<104, 233>>}

\* The inputs a request of the tool may carry
InputsOf(name) ==
    IF name = "read_file"
    THEN {Input(path, None, None, None) : path \in {None} \cup {Some(q) : q \in Paths}}
    ELSE IF name = "write_file"
    THEN {Input(None, Some(<<>>), None, None)} \cup
         {Input(Some(q), content, None, None) :
             q \in Paths, content \in {None} \cup {Some(t) : t \in Texts}}
    ELSE IF name = "list_files"
    THEN {Input(path, None, None, pattern) :
             path \in {None, Some(Path(FALSE, <<"d">>))}, pattern \in {None, Some("[")}}
    ELSE IF name = "run_command"
    THEN {Input(None, None, command, None) : command \in {None, Some("cmd")}}
    ELSE IF name = "search_files"
    THEN {Input(None, None, None, pattern) : pattern \in {None, Some("p")}}
    ELSE {Input(None, None, None, None)}

\* Outputs of a command: none, a line feed, a text with a byte that is not
\* UTF-8
Outputs == {<<>>, <<10>>, <<104, 255>>}

\* What may happen to a spawned command: it cannot be spawned, waiting for it
\* fails, it runs into the timeout, or it exits (code None: ended by a signal)
Outcomes ==
    {[kind |-> k, stdout |-> <<>>, stderr |-> <<>>, code |-> None, duration_ms |-> 3] :
        k \in {"spawn_err", "wait_err"}} \cup
    {[kind |-> "timeout", stdout |-> <<>>, stderr |-> <<>>, code |-> None,
      duration_ms |-> COMMAND_TIMEOUT_SECS * 1000 + 1]} \cup
    {[kind |-> "exit", stdout |-> out, stderr |-> err, code |-> code, duration_ms |-> 3] :
        out \in Outputs, err \in {<<>>, <<101>>}, code \in {Some(0), Some(1), None}}

\* Only a call that spawns a command meets the operating system
OutcomesOf(name, input, cwd, world) ==
    IF /\ cwd_exists(world, cwd)
       /\ \/ name = "run_command" /\ input.command # None
          \/ name = "search_files" /\ input.pattern # None
    THEN Outcomes ELSE {NoOutcome}

\* One call of execute_tool
ExecuteTool ==
    /\ ncalls < MaxToolCalls
    /\ \E name \in ToolCallNames, cwd \in Cwds :
         \E input \in InputsOf(name) :
           \E os \in OutcomesOf(name, input, cwd, fs) :
             LET done == execute_tool(name, input, cwd, fs, os)
             IN  /\ fs' = done.world
                 /\ children' = IF done.child = "left" THEN children \cup {ncalls + 1}
                                 ELSE children
                 /\ last' = [name |-> name, cwd |-> cwd, input |-> input, os |-> os,
                             full_path |-> done.full_path, result |-> done.out.result,
                             error |-> done.out.error, metrics |-> done.out.metrics,
                             child |-> done.child]
    /\ ncalls' = ncalls + 1
    /\ UNCHANGED <<status, settings, active_commands, task_queue, agent_id, is_connected,
                   sup, eng, task, nreq, tool_responses, tool_queued, enqOrder, deqOrder,
                   first_frame, logs, nlogs, disconnect_requested, malformed, wireVars>>

\* The tools read no setting: the calls start from one launch state
InitTools ==
    /\ Init
    /\ settings = [max_concurrent_commands |-> 1, auto_connect_on_launch |-> FALSE]

SpecTools == InitTools /\ [][ExecuteTool]_vars

\* The messages of a sequence of commands, as write_task writes them
Messages(cmds) == [i \in 1..Len(cmds) |-> to_message(cmds[i])]

\* p is an initial part of q
IsPrefix(p, q) == Len(p) <= Len(q) /\ p = SubSeq(q, 1, Len(p))

C22_SingleWriterOrder ==
    /\ written # <<>> => IsPrefix(Tail(written), Messages(sent))
    /\ conn_tasks.write_task
          => Tail(written) \o Messages(SelectSeq(chan, LAMBDA c : c.cmd = "Send"))
               = Messages(sent)

\* C22's case: frames of a ticker and of a tool task were written, with more
\* than one frame waiting in the channel at some time before.
C22_Witness ==
    /\ Len(written) >= 4
    /\ \E i \in 1..Len(written) : written[i].type = "Ping"
    /\ \E i \in 1..Len(written) :
          written[i].type = "Text" /\ written[i].text[1] = "tool_response"
    /\ chan # <<>>

\* C24: for every tool name, a call whose cwd does not exist returns the error
\* "Working directory not found" and has no side effect: the file system is as
\* before (no file written, no directory created) and no process was spawned.
C24_MissingCwdNoSideEffect ==
    [][(ncalls' = ncalls + 1 /\ ~exists(fs, last'.cwd))
          => /\ last'.error = Some(ErrorText("Working directory not found"))
             /\ fs' = fs
             /\ children' = children
             /\ last'.child = "none"]_vars

\* C24's case: after a call that wrote a file, a tool that writes or spawns
\* was called, with its parameters, in a cwd that does not exist.
C24_Witness ==
    /\ ncalls = 2
    /\ ~exists(fs, last.cwd)
    /\ last.name \in {"write_file", "run_command"}
    /\ last.input.path # None \/ last.input.command # None
    /\ \E l \in DOMAIN fs : fs[l].kind = "file"

\* C25: run_command timeout: when the command does not finish within the
\* timeout, the call returns the error "Command timed out" with
\* metrics.duration_ms set, and the child process is no longer running after
\* the call has returned.
C25_TimeoutKillsChild ==
    (last.name = "run_command" /\ last.os.kind = "timeout")
    => /\ last.error = Some(ErrorText("Command timed out"))
       /\ last.metrics # None
       /\ last.metrics[1].duration_ms >= COMMAND_TIMEOUT_SECS * 1000
       /\ last.child # "left"
       /\ ncalls \notin children

\* The error and the metrics of a timed-out run_command are as documented
C25_TimeoutErrorAndMetrics ==
    (last.name = "run_command" /\ last.os.kind = "timeout")
    => /\ last.error = Some(ErrorText("Command timed out"))
       /\ last.metrics # None
       /\ last.metrics[1].duration_ms >= COMMAND_TIMEOUT_SECS * 1000

\* C26: run_command result selection: for a command that completes, result is
\* its stdout if that is not empty, else its stderr if that is not empty, else
\* the literal "(command completed with no output)"; error is absent on exit
\* code 0 and "Exit code: <n>" on a non-zero exit, the result still being the
\* captured output.
C26_ResultSelection ==
    (last.name = "run_command" /\ last.os.kind = "exit")
    => LET stdout == from_utf8_lossy(last.os.stdout)
           stderr == from_utf8_lossy(last.os.stderr)
       IN  /\ last.os.stdout # <<>> => last.result = Text("{}", stdout)
           /\ (last.os.stdout = <<>> /\ last.os.stderr # <<>>)
                 => last.result = Text("{}", stderr)
           /\ (last.os.stdout = <<>> /\ last.os.stderr = <<>>)
                 => last.result = Text("(command completed with no output)", <<>>)
           /\ last.os.code = Some(0) => last.error = None
           /\ \A n \in {1} : last.os.code = Some(n)
                 => last.error = Some([msg |-> "Exit code: {}", code |-> n])
           /\ last.os.code # Some(0) => last.error # None

\* C26's case: a command has exited with a non-zero code, nothing on stdout
\* and a text on stderr.
C26_Witness ==
    /\ last.name = "run_command"
    /\ last.os.kind = "exit"
    /\ last.os.code = Some(1)
    /\ last.os.stdout = <<>>
    /\ last.os.stderr # <<>>
    /\ last.result = Text("{}", last.os.stderr)

\* C27: round trip: a successful write_file(p, c) followed by read_file(p)
\* with the same cwd yields result = c with no error, also when p's parent
\* directories did not exist before the write.
C27_WriteReadRoundTrip ==
    [][(/\ last.name = "write_file"
        /\ last.error = None
        /\ ncalls' = ncalls + 1
        /\ last'.name = "read_file"
        /\ last'.cwd = last.cwd
        /\ last'.input.path = last.input.path)
          => /\ last'.result = Text("{}", last.input.content[1])
             /\ last'.error = None]_vars

\* C27's case: a text with a character of two bytes was written to a path
\* whose directory the write had to create, and was read back.
C27_Witness ==
    /\ ncalls = 2
    /\ last.name = "read_file"
    /\ last.input.path = Some(Path(FALSE, <<"d", "f">>))
    /\ last.error = None
    /\ last.result = Text("{}", <<104, 233>>)
    /\ Location(parent(last.full_path[1])) \notin DOMAIN InitialFs

\* C28: path resolution: resolve returns the path unchanged when it is
\* absolute and cwd joined with the path otherwise (/home/user and file.txt
\* give /home/user/file.txt; /home/user and /etc/config give /etc/config);
\* hence resolving twice with an absolute cwd gives what resolving once gives.
C28_ResolvePath ==
    /\ (last.full_path # None /\ last.input.path # None)
         => LET p == last.input.path[1]
                r == last.full_path[1]
            IN  /\ p.abs => r = p
                /\ ~p.abs => (r.abs = last.cwd.abs /\ r.comps = last.cwd.comps \o p.comps)
                /\ last.cwd.abs => resolve_path(last.cwd, r) = r
    /\ resolve_path(Path(TRUE, <<"home", "user">>), Path(FALSE, <<"file.txt">>))
         = Path(TRUE, <<"home", "user", "file.txt">>)
    /\ resolve_path(Path(TRUE, <<"home", "user">>), Path(TRUE, <<"etc", "config">>))
         = Path(TRUE, <<"etc", "config">>)

\* C28's case: an absolute path was resolved against an absolute cwd that it
\* does not lie in, after a relative path had been.
C28_Witness ==
    /\ ncalls = 2
    /\ last.cwd = Path(TRUE, <<"w">>)
    /\ last.input.path = Some(Path(TRUE, <<"x", "f">>))
    /\ last.full_path = last.input.path
    /\ \E l \in DOMAIN fs : fs[l].kind = "file" /\ l = <<"w", "f">>

\* The run_command tools that are executing: execute_task has raised the
\* active count for them and execute_tool has not returned
RunningCommands == {r \in Requests : task[r].tool = "run_command" /\ task[r].pc = "run"}

\* C31: the number of run_command tools executing at the same time never
\* exceeds maxConcurrentCommands, also when a drain step interleaves with the
\* admission of a new request.
C31_RunningCommandsWithinMax ==
    Cardinality(RunningCommands) <= settings.max_concurrent_commands

\* C32: whenever the status is Working, the active count is above zero and the
\* agent is connected; the status is not left at Working after the last task
\* has finished, also when it finishes after a disconnect or after the
\* connection has closed.
C32_WorkingOnlyWhileActiveAndConnected ==
    status = "Working" => (active_commands > 0 /\ is_connected)

\* C33: every tool_response is sent on the connection on which its request
\* was received, and the queue holds no task of an earlier connection when a
\* new connection starts: with one loop at a time, the queue is empty whenever
\* an open succeeds (only a read loop fills it).
C33_QueueEmptyAtConnectionStart ==
    [][\A s \in Sups :
          (sup[s].pc = "connect" /\ sup'[s].pc = "engine") => task_queue = <<>>]_vars

\* The supervisor loops that are alive, and those with an open transport
LiveLoops == {s \in Sups : sup[s].pc # "none"}
OpenTransports == {s \in Sups : sup[s].pc = "engine"}

\* C34: at most one supervisor loop, and hence at most one open transport and
\* one protocol engine, exists at any time, for every sequence of connect,
\* tray-connect, disconnect and auto-connect.
C34_AtMostOneSupervisorLoop ==
    /\ Cardinality(LiveLoops) <= 1
    /\ Cardinality(OpenTransports) <= 1

\* The executions that have raised the active count and not yet lowered it
CountedExecutions == {r \in Requests : task[r].pc = "run"}

\* C35: the active count equals the number of tool executions that have
\* incremented it and not yet decremented it; every decrement finds a count
\* above zero (the saturating branch is never taken), and the count is zero
\* when all executions have finished.
C35_ActiveCountIsExact ==
    /\ active_commands = Cardinality(CountedExecutions)
    /\ CountedExecutions # {} => active_commands > 0
    /\ (\A r \in Requests : ~InProgress(r)) => active_commands = 0

\* C35's case: two executions are counted together, one of them taken from
\* the queue, after an earlier one has finished.
C35_Witness ==
    /\ active_commands = 2
    /\ \E r, q \in CountedExecutions : r # q /\ task[r].was_queued
    /\ \E r \in Requests : task[r].pc = "done"

====
